---------------------------- MODULE Spec2Model ----------------------------
(***************************************************************************)
(* APC propeller analyzer: the characteristic generator (batch synthesis   *)
(* of per-airspeed tables from per-RPM .dat files) and the thrust lookup   *)
(* utility (static and forward-flight operating point).                    *)
(*                                                                         *)
(* Numbers.  The generator only multiplies and divides, so a value is kept *)
(* exactly as  (n/d) * 0.0254^u * pi^p  (record [n, d, u, p], lowest terms,*)
(* d > 0): 0.0254 (inch to metre) and pi stay symbolic so that D^5 and     *)
(* 2*pi are exact.  The lookup interpolates linearly; its values are the   *)
(* plain rationals among these (u = p = 0), which it also adds and orders. *)
(***************************************************************************)
EXTENDS Integers, Sequences, FiniteSets, TLC

VARIABLES
    \* ---- characteristic_generator.py: main() and the call it is in ----
    propellers_to_process,  \* main: the selected folder names, in order
    i,                      \* main: 1-based position of the loop (enumerate)
    success_count,          \* main
    fail_count,             \* main
    exit_status,            \* main: the value returned, None before
    attempted,              \* history: folder names handed to generate, in order
    pc,                     \* position of the batch run
    propeller_diameter,     \* generate: parsed diameter in metres, or None
    dat_files,              \* generate: os.listdir result, the .dat files
    k,                      \* generate: 1-based position in dat_files
    rpm_dataframes,         \* generate: the frames appended so far
    propeller_data,         \* generate's result: the dict, or None
    store,                  \* the output directory: path -> what a reader finds
    \* ---- thrust_lookup.py: ThrustLookupUtility ----
    data,                   \* self.data: airspeed key -> table
    diameter_inches,        \* self.diameter_inches
    max_mechanical_rpm,     \* self.max_mechanical_rpm
    target_thrust,          \* the query
    flight_speed,           \* the query; the key in use once substituted
    warnings,               \* the warnings printed to the caller
    result,                 \* the returned dict, or None
    lpc,                    \* position of the lookup
    requested_speed,        \* history: flight_speed as the caller passed it
    first_positive_idx,     \* find_operating_point: 1-based onset row, 0 before
    fitting_mask,           \* find_operating_point: the rows of the fitting window
    solution                \* history: what fsolve handed back, None before

vars == <<propellers_to_process, i, success_count, fail_count, exit_status,
          attempted, pc, propeller_diameter, dat_files, k, rpm_dataframes,
          propeller_data, store, data, diameter_inches, max_mechanical_rpm,
          target_thrust, flight_speed, warnings, result, lpc,
          requested_speed, first_positive_idx, fitting_mask, solution>>

genVars == <<propellers_to_process, i, success_count, fail_count, exit_status,
             attempted, pc, propeller_diameter, dat_files, k, rpm_dataframes,
             propeller_data, store>>

lookupVars == <<data, diameter_inches, max_mechanical_rpm, target_thrust,
                flight_speed, warnings, result, lpc,
                requested_speed, first_positive_idx, fitting_mask, solution>>

\* the locals of the forward-flight solve
fitVars == <<first_positive_idx, fitting_mask, solution>>

None == "None"

----------------------------------------------------------------------------
(* Bounds of the model *)

\* longest batch (number of selected propellers)
MaxProps == 2
\* most .dat files in one propeller folder
MaxFiles == 2
\* most rows with rpm > 0 in the V = 0 table handed to the lookup
MaxRows == 3
\* most rows with rpm > 0 in a forward-flight table handed to the lookup
MaxSamples == 4

(* Program constants *)

\* range(101): the integer airspeeds 0..100
NumAirspeeds == 101

Airspeeds == 0 .. (NumAirspeeds - 1)

----------------------------------------------------------------------------
(* Exact arithmetic *)

Abs(x) == IF x < 0 THEN -x ELSE x

RECURSIVE GCD(_, _)
GCD(a, b) == IF b = 0 THEN a ELSE GCD(b, a % b)

Pow(b, e) == IF e = 0 THEN 1
             ELSE IF e = 1 THEN b
             ELSE IF e = 2 THEN b * b
             ELSE IF e = 3 THEN b * b * b
             ELSE IF e = 4 THEN b * b * b * b
             ELSE b * b * b * b * b

\* (n/d) * 0.0254^u * pi^p in lowest terms; zero has one representation
QNorm(n, d, u, p) ==
    IF n = 0 THEN [n |-> 0, d |-> 1, u |-> 0, p |-> 0]
    ELSE LET g == GCD(Abs(n), Abs(d))
             s == IF d < 0 THEN -1 ELSE 1
         IN  [n |-> s * (n \div g), d |-> s * (d \div g), u |-> u, p |-> p]

QInt(x) == QNorm(x, 1, 0, 0)
QZero == QInt(0)
QPositive(a) == a.n > 0

\* cross-cancel first, so that no intermediate product is larger than the result
QMul(a, b) ==
    IF a.n = 0 \/ b.n = 0 THEN QZero
    ELSE LET g1 == GCD(Abs(a.n), b.d)
             g2 == GCD(Abs(b.n), a.d)
         IN  QNorm((a.n \div g1) * (b.n \div g2), (a.d \div g2) * (b.d \div g1),
                   a.u + b.u, a.p + b.p)

\* b is not zero
QInv(b) == QNorm(b.d, b.n, -b.u, -b.p)
QDiv(a, b) == QMul(a, QInv(b))

\* sum, difference and order of plain rationals (u = p = 0)
\* (over the least common denominator, so that no product is larger than needed)
QAdd(a, b) ==
    LET g == GCD(a.d, b.d)
    IN  QNorm(a.n * (b.d \div g) + b.n * (a.d \div g), (a.d \div g) * b.d, 0, 0)
QSub(a, b) ==
    LET g == GCD(a.d, b.d)
    IN  QNorm(a.n * (b.d \div g) - b.n * (a.d \div g), (a.d \div g) * b.d, 0, 0)
QLess(a, b) ==
    LET g == GCD(a.d, b.d)
    IN  a.n * (b.d \div g) < b.n * (a.d \div g)

RECURSIVE QPow(_, _)
QPow(a, e) == IF e = 0 THEN QInt(1) ELSE QMul(a, QPow(a, e - 1))

\* the literals of the generator
InchToMetre == [n |-> 1, d |-> 1, u |-> 1, p |-> 0]    \* 0.0254
TwoPi == [n |-> 2, d |-> 1, u |-> 0, p |-> 1]          \* 2 * np.pi
rho == QNorm(1225, 1000, 0, 0)                        \* 1.225

----------------------------------------------------------------------------
(* Text: a name is a sequence of one-character strings *)

Digits == {"0", "1", "2", "3", "4", "5", "6", "7", "8", "9"}

DigitVal(c) == CASE c = "0" -> 0 [] c = "1" -> 1 [] c = "2" -> 2 [] c = "3" -> 3
                 [] c = "4" -> 4 [] c = "5" -> 5 [] c = "6" -> 6 [] c = "7" -> 7
                 [] c = "8" -> 8 [] OTHER -> 9

\* index of the first occurrence of c in s, Len(s) + 1 when there is none
RECURSIVE FirstIndex(_, _, _)
FirstIndex(s, c, from) ==
    IF from > Len(s) THEN Len(s) + 1
    ELSE IF s[from] = c THEN from
    ELSE FirstIndex(s, c, from + 1)

\* s.split(c)[0]
SplitHead(s, c) == SubSeq(s, 1, FirstIndex(s, c, 1) - 1)

\* s[1:]
DropFirst(s) == IF Len(s) = 0 THEN <<>> ELSE Tail(s)

\* s.replace(a, b) for one-character a, b
Replace(s, a, b) == [j \in 1 .. Len(s) |-> IF s[j] = a THEN b ELSE s[j]]

Count(s, c) == Cardinality({j \in 1 .. Len(s) : s[j] = c})

\* the digits of s read as a decimal number, the other characters skipped
RECURSIVE DigitsValue(_)
DigitsValue(s) ==
    IF Len(s) = 0 THEN 0
    ELSE LET c == s[Len(s)]
             rest == DigitsValue(SubSeq(s, 1, Len(s) - 1))
         IN  IF c \in Digits THEN 10 * rest + DigitVal(c) ELSE rest

\* float(s) over the characters the model's names use (digits, ".", letters,
\* none of the letters of an exponent, "inf" or "nan"): a ValueError unless s
\* is digits with at most one "." and at least one digit
FloatParses(s) ==
    /\ \A j \in 1 .. Len(s) : s[j] \in Digits \cup {"."}
    /\ Count(s, ".") <= 1
    /\ \E j \in 1 .. Len(s) : s[j] \in Digits

FloatValue(s) ==
    LET dot == FirstIndex(s, ".", 1)
        frac == IF dot > Len(s) THEN 0 ELSE Len(s) - dot
    IN  QNorm(DigitsValue(s), Pow(10, frac), 0, 0)

\* int(s): an optional sign, then digits only
IntParses(s) ==
    LET body == IF Len(s) > 0 /\ s[1] \in {"-", "+"} THEN Tail(s) ELSE s
    IN  /\ Len(body) > 0
        /\ \A j \in 1 .. Len(body) : body[j] \in Digits

IntValue(s) == IF Len(s) > 0 /\ s[1] = "-" THEN -DigitsValue(s) ELSE DigitsValue(s)


----------------------------------------------------------------------------
(* characteristic_generator.py: generate_propeller_characteristics *)

\* one line of a .dat file: the names given to read_csv
Raw(V, J, eta, CT, CP, P, Q, T) ==
    [V |-> V, J |-> J, eta |-> eta, CT |-> CT, CP |-> CP, P |-> P, Q |-> Q, T |-> T]

\* the ValueError branch of the diameter: no diameter (no number has d = 0)
NoDiameter == [n |-> 0, d |-> 0, u |-> 0, p |-> 0]

\* folder_name.split('P')[0][1:], the '-' replaced by '.' when there is one
DiameterString(folder_name) == Replace(DropFirst(SplitHead(folder_name, "P")), "-", ".")

\* the try block of the diameter, in metres
ParseDiameter(folder_name) ==
    LET diameter_string == DiameterString(folder_name)
    IN  IF FloatParses(diameter_string)
        THEN QMul(FloatValue(diameter_string), InchToMetre)
        ELSE NoDiameter

\* int(filename.replace('.dat', '')); stem is the name without '.dat'
RpmParses(stem) == IntParses(stem)
RpmOf(stem) == IntValue(stem)

\* a row of the merged frame: nan marks the row of an airspeed the file does
\* not list, whose columns other than V are NaN
Measured(r) ==
    [V |-> r.V, J |-> r.J, eta |-> r.eta, CT |-> r.CT, CP |-> r.CP,
     P |-> r.P, Q |-> r.Q, T |-> r.T, nan |-> FALSE]

MissingRow(v) ==
    [V |-> v, J |-> 0, eta |-> 0, CT |-> 0, CP |-> 0, P |-> 0, Q |-> 0, T |-> 0,
     nan |-> TRUE]

RowsWithV(rows, v) == SelectSeq(rows, LAMBDA r : r.V = v)

SetMin(S) == CHOOSE x \in S : \A y \in S : x <= y
SetMax(S) == CHOOSE x \in S : \A y \in S : x >= y

\* the keys lo..hi in ascending order: each key's file rows (every one of
\* them, in file order), or its missing row
RECURSIVE MergeRange(_, _, _)
MergeRange(rows, lo, hi) ==
    IF lo > hi THEN <<>>
    ELSE IF lo = hi
    THEN LET here == RowsWithV(rows, lo)
         IN  IF Len(here) > 0 THEN [j \in 1 .. Len(here) |-> Measured(here[j])]
             ELSE IF lo \in Airspeeds THEN <<MissingRow(lo)>>
             ELSE <<>>
    ELSE LET mid == (lo + hi) \div 2
         IN  MergeRange(rows, lo, mid) \o MergeRange(rows, mid + 1, hi)

\* mutant: how='right', only the airspeeds the file lists
MergeAllSpeeds_RightJoin(rows) == [j \in 1 .. Len(rows) |-> Measured(rows[j])]

\* pd.merge(all_speeds, data, on='V', how='outer').sort_values('V')
MergeAllSpeeds(rows) ==
    LET keys == Airspeeds \cup {rows[j].V : j \in 1 .. Len(rows)}
    IN  MergeRange(rows, SetMin(keys), SetMax(keys))

\* Series.interpolate(method='polynomial', order=...) then fillna(0) on one of
\* T, Q, P: a NaN between two measured rows gets the library's interpolated
\* value (fill: what the spline gives there, an input of the model), a NaN
\* outside them stays NaN and becomes 0
InterpolateColumn(frame, col, fill) ==
    LET valid == {j \in 1 .. Len(frame) : ~frame[j].nan}
        first == SetMin(valid)
        last == SetMax(valid)
    IN  [j \in 1 .. Len(frame) |->
            IF ~frame[j].nan THEN frame[j][col]
            ELSE IF valid # {} /\ first < j /\ j < last THEN fill
            ELSE 0]

\* the three interpolations and data.fillna(0), which also zeroes the NaN of
\* the coefficient columns
Interpolate(frame, fill) ==
    LET T == InterpolateColumn(frame, "T", fill.T)
        Q == InterpolateColumn(frame, "Q", fill.Q)
        P == InterpolateColumn(frame, "P", fill.P)
    IN  [j \in 1 .. Len(frame) |->
            [V |-> frame[j].V, J |-> frame[j].J, eta |-> frame[j].eta,
             CT |-> frame[j].CT, CP |-> frame[j].CP,
             P |-> P[j], Q |-> Q[j], T |-> T[j]]]

\* n = rpm / 60.0
RevsPerSecond(rpm) == QNorm(rpm, 60, 0, 0)

\* mutant: the advance ratio the file supplied is kept
AdvanceRatio_FromFile(row, rpm, D) == QInt(row.J)

\* np.where(n > 0, data['V'] / (n * D), 0)
AdvanceRatio(row, rpm, D) ==
    IF rpm > 0 THEN QDiv(QInt(row.V), QMul(RevsPerSecond(rpm), D)) ELSE QZero

\* np.where(n > 0, data['T'] / (rho * n**2 * D**4), 0)
ThrustCoefficient(row, rpm, D) ==
    IF rpm > 0
    THEN QDiv(QInt(row.T), QMul(rho, QMul(QPow(RevsPerSecond(rpm), 2), QPow(D, 4))))
    ELSE QZero

\* np.where(n > 0, data['P'] / (rho * n**3 * D**5), 0)
PowerCoefficient(row, rpm, D) ==
    IF rpm > 0
    THEN QDiv(QInt(row.P), QMul(rho, QMul(QPow(RevsPerSecond(rpm), 3), QPow(D, 5))))
    ELSE QZero

\* data['CP'] / (2 * np.pi)
TorqueCoefficient(CP) == QDiv(CP, TwoPi)

\* np.where(data['CP'] > 0, (data['CT'] * data['J']) / data['CP'], 0)
Efficiency(CT, J, CP) == IF QPositive(CP) THEN QDiv(QMul(CT, J), CP) ELSE QZero

\* the coefficient columns of one row, written over what the file supplied
Coefficients(row, rpm, D) ==
    LET J == AdvanceRatio(row, rpm, D)
        CT == ThrustCoefficient(row, rpm, D)
        CP == PowerCoefficient(row, rpm, D)
    IN  [V |-> row.V, J |-> J, eta |-> Efficiency(CT, J, CP), CT |-> CT, CP |-> CP,
         P |-> row.P, Q |-> row.Q, T |-> row.T, rpm |-> rpm,
         CQ |-> TorqueCoefficient(CP)]

\* the body of the try block for one readable file: the frame appended
ProcessFile(file, D) ==
    LET rpm == RpmOf(file.stem)
        frame == Interpolate(MergeAllSpeeds(file.rows), file.fill)
    IN  [j \in 1 .. Len(frame) |-> Coefficients(frame[j], rpm, D)]

\* the try block ends in the append, or in the except branch (continue): the
\* name is no integer, or read_csv or interpolate raised
FileProcesses(file) == RpmParses(file.stem) /\ ~file.raises

\* rpm_dataframes after one file
AppendFrame(frames, file, D) ==
    IF FileProcesses(file) THEN Append(frames, ProcessFile(file, D)) ELSE frames

\* mutant: the except branch ends the loop (break for continue)
NextFile_BreakOnError(pos, files) ==
    IF FileProcesses(files[pos]) THEN pos + 1 ELSE Len(files) + 1

\* the loop goes on to the next file whatever happened to this one
NextFile(pos, files) == pos + 1

\* zero_rpm_data
ZeroRpmData ==
    [j \in 1 .. NumAirspeeds |->
        [V |-> j - 1, J |-> QZero, eta |-> QZero, CT |-> QZero, CP |-> QZero,
         P |-> 0, Q |-> 0, T |-> 0, rpm |-> 0, CQ |-> QZero]]

\* data[data['V'] == v]
RowsOfAirspeed(frame, v) == SelectSeq(frame, LAMBDA r : r.V = v)

RECURSIVE Concat(_)
Concat(seqs) == IF Len(seqs) = 0 THEN <<>> ELSE Head(seqs) \o Concat(Tail(seqs))

\* insert a row after the rows whose rpm is not larger
RECURSIVE InsertByRpm(_, _)
InsertByRpm(sorted, row) ==
    IF Len(sorted) = 0 THEN <<row>>
    ELSE IF sorted[Len(sorted)].rpm <= row.rpm THEN Append(sorted, row)
    ELSE Append(InsertByRpm(SubSeq(sorted, 1, Len(sorted) - 1), row), sorted[Len(sorted)])

\* sort_values(by='rpm').reset_index(drop=True); rows of equal rpm keep their order
RECURSIVE SortByRpm(_)
SortByRpm(table) ==
    IF Len(table) = 0 THEN <<>>
    ELSE InsertByRpm(SortByRpm(SubSeq(table, 1, Len(table) - 1)), table[Len(table)])

\* the table of one airspeed: the rows of every frame, concatenated and sorted
AirspeedTable(frames, v) ==
    SortByRpm(Concat([f \in 1 .. Len(frames) |-> RowsOfAirspeed(frames[f], v)]))

\* propeller_data, built from rpm_dataframes
BuildDictionary(frames) == [v \in Airspeeds |-> AirspeedTable(frames, v)]

----------------------------------------------------------------------------
(* characteristic_generator.py: save_propeller_data and main *)

\* no dataset: the None of (None, None)
NoData == <<>>

\* return 0 if fail_count == 0 else 1
ExitStatus(fails) == IF fails = 0 THEN 0 ELSE 1

\* mutant: the failure is not counted
CountFailure_Forgotten(fails) == fails

\* fail_count after a propeller that gave no dataset or whose save failed
CountFailure(fails) == fails + 1

\* the for statement moves to the next entry of the list whatever the outcome
NextPropeller(pos) == pos + 1

----------------------------------------------------------------------------
(* The inputs: folder names and folder contents *)

Identifiers ==
    { <<"D", "2", "P", "7">>,               \* D2P7: 2 in
      <<"D", "1", "-", "5", "P", "7">>,     \* D1-5P7: 1.5 in
      <<"X", "2", "P", "7">>,               \* no leading D
      <<"D", "2">>,                         \* no P
      <<"X", "Y", "Z">> }                   \* no number

\* Every readable file lists at least four airspeeds, what the cubic
\* interpolation of P needs; fill is what the splines give between them.

\* 60.dat: sparse, airspeeds 0, 2, 5 and 9
File60 ==
    [stem |-> <<"6", "0">>,
     rows |-> << Raw(0, 9, 9, 9, 9, 8, 1, 4), Raw(2, 7, 7, 7, 7, 6, 1, 3),
                 Raw(5, 5, 5, 5, 5, 4, 1, 2), Raw(9, 4, 4, 4, 4, 2, 1, 1) >>,
     raises |-> FALSE,
     fill |-> [T |-> 3, Q |-> 1, P |-> 5]]

\* 120.dat: rows out of order, a negative power, a zero power, an airspeed
\* outside 0..100
File120 ==
    [stem |-> <<"1", "2", "0">>,
     rows |-> << Raw(4, 1, 1, 1, 1, 0, 0, 0), Raw(1, 2, 2, 2, 2, -6, -1, 5),
                 Raw(150, 3, 3, 3, 3, 9, 2, 7), Raw(0, 2, 2, 2, 2, 7, 2, 6) >>,
     raises |-> FALSE,
     fill |-> [T |-> 2, Q |-> -1, P |-> -3]]

\* 90.dat: lists airspeed 2 twice
File90 ==
    [stem |-> <<"9", "0">>,
     rows |-> << Raw(0, 1, 1, 1, 1, 6, 2, 4), Raw(2, 1, 1, 1, 1, 3, 1, 2),
                 Raw(2, 1, 1, 1, 1, 5, 2, 3), Raw(3, 1, 1, 1, 1, 2, 1, 1),
                 Raw(6, 1, 1, 1, 1, 1, 1, 1) >>,
     raises |-> FALSE,
     fill |-> [T |-> 1, Q |-> 1, P |-> 2]]

\* 0.dat: a file whose name gives rpm 0
File0 ==
    [stem |-> <<"0">>,
     rows |-> << Raw(0, 0, 0, 0, 0, 3, 1, 2), Raw(1, 0, 0, 0, 0, 3, 1, 2),
                 Raw(2, 0, 0, 0, 0, 2, 1, 1), Raw(3, 0, 0, 0, 0, 2, 1, 1) >>,
     raises |-> FALSE,
     fill |-> [T |-> 1, Q |-> 1, P |-> 2]]

\* ab.dat: the name is no integer
FileAb ==
    [stem |-> <<"a", "b">>,
     rows |-> << Raw(0, 1, 1, 1, 1, 1, 1, 1), Raw(1, 1, 1, 1, 1, 1, 1, 1),
                 Raw(2, 1, 1, 1, 1, 1, 1, 1), Raw(3, 1, 1, 1, 1, 1, 1, 1) >>,
     raises |-> FALSE,
     fill |-> [T |-> 0, Q |-> 0, P |-> 0]]

\* 30.dat: an empty file, read_csv raises
File30 ==
    [stem |-> <<"3", "0">>,
     rows |-> << >>,
     raises |-> TRUE,
     fill |-> [T |-> 0, Q |-> 0, P |-> 0]]

Files == {File60, File120, File90, File0, FileAb, File30}

\* a directory listing: files of different names, in any order
ListingsOf(files, most) ==
    {s \in UNION {[1 .. n -> files] : n \in 0 .. most} :
        \A a, b \in 1 .. Len(s) : a # b => s[a].stem # s[b].stem}

Listings == ListingsOf(Files, MaxFiles)

\* the listings of the batch runs: at most one file
BatchListings == ListingsOf({File60, FileAb}, 1)

Batches(most) == UNION {[1 .. n -> Identifiers] : n \in 1 .. most}

Paths == Identifiers

----------------------------------------------------------------------------
(* The batch run: main() with generate and save unfolded into their steps *)

LookupIdle ==
    /\ data = <<>>
    /\ diameter_inches = 0
    /\ max_mechanical_rpm = 0
    /\ target_thrust = 0
    /\ flight_speed = QZero
    /\ warnings = {}
    /\ result = None
    /\ lpc = "idle"
    /\ requested_speed = QZero
    /\ first_positive_idx = 0
    /\ fitting_mask = {}
    /\ solution = None

GenStart(batches) ==
    /\ propellers_to_process \in batches
    /\ i = 1
    /\ success_count = 0
    /\ fail_count = 0
    /\ exit_status = None
    /\ attempted = <<>>
    /\ pc = "loop"
    /\ propeller_diameter = NoDiameter
    /\ dat_files = <<>>
    /\ k = 1
    /\ rpm_dataframes = <<>>
    /\ propeller_data = NoData
    /\ store = [p \in Paths |-> "absent"]

\* one propeller selected on the command line
Init == GenStart(Batches(1)) /\ LookupIdle

\* a batch of propellers
BatchInit == GenStart(Batches(MaxProps)) /\ LookupIdle

folder_name == propellers_to_process[i]

\* main: the for statement takes the next name and calls generate, which
\* parses the diameter (lines 266-273, 30-47)
StartPropeller ==
    /\ pc = "loop"
    /\ i <= Len(propellers_to_process)
    /\ attempted' = Append(attempted, folder_name)
    /\ propeller_diameter' = ParseDiameter(folder_name)
    /\ dat_files' = <<>>
    /\ k' = 1
    /\ rpm_dataframes' = <<>>
    /\ propeller_data' = NoData
    /\ pc' = IF ParseDiameter(folder_name) = NoDiameter THEN "returned" ELSE "list"
    /\ UNCHANGED <<propellers_to_process, i, success_count, fail_count,
                   exit_status, store>>
    /\ UNCHANGED lookupVars

\* generate: the .dat files of the folder; none gives (None, None) (lines 50-54)
ListFiles(listings) ==
    /\ pc = "list"
    /\ \E files \in listings :
        /\ dat_files' = files
        /\ pc' = IF Len(files) = 0 THEN "returned" ELSE "files"
    /\ UNCHANGED <<propellers_to_process, i, success_count, fail_count,
                   exit_status, attempted, propeller_diameter, k,
                   rpm_dataframes, propeller_data, store>>
    /\ UNCHANGED lookupVars

\* generate: one turn of the loop over the files (lines 56-116)
ProcessNextFile ==
    /\ pc = "files"
    /\ k <= Len(dat_files)
    /\ rpm_dataframes' = AppendFrame(rpm_dataframes, dat_files[k], propeller_diameter)
    /\ k' = NextFile(k, dat_files)
    /\ UNCHANGED <<propellers_to_process, i, success_count, fail_count,
                   exit_status, attempted, pc, propeller_diameter, dat_files,
                   propeller_data, store>>
    /\ UNCHANGED lookupVars

\* generate: after the loop, (None, None) without a frame, else the zero rpm
\* curve and the dictionary (lines 118-149)
FinishGenerate ==
    /\ pc = "files"
    /\ k > Len(dat_files)
    /\ IF Len(rpm_dataframes) = 0
       THEN /\ propeller_data' = NoData
            /\ UNCHANGED rpm_dataframes
       ELSE /\ rpm_dataframes' = Append(rpm_dataframes, ZeroRpmData)
            /\ propeller_data' = BuildDictionary(rpm_dataframes')
    /\ pc' = "returned"
    /\ UNCHANGED <<propellers_to_process, i, success_count, fail_count,
                   exit_status, attempted, propeller_diameter, dat_files, k,
                   store>>
    /\ UNCHANGED lookupVars

\* main: no dataset, one failure (lines 275, 281-282)
CountNoDataset ==
    /\ pc = "returned"
    /\ propeller_data = NoData
    /\ fail_count' = CountFailure(fail_count)
    /\ i' = NextPropeller(i)
    /\ pc' = "loop"
    /\ UNCHANGED <<propellers_to_process, success_count, exit_status, attempted,
                   propeller_diameter, dat_files, k, rpm_dataframes,
                   propeller_data, store>>
    /\ UNCHANGED lookupVars

\* save: makedirs and open(output_file, 'wb'), which creates the file at its
\* final path, empty; either may raise, which save turns into None and main
\* into a failure (lines 164-168, 172-174, 279-280)
SaveOpen ==
    /\ pc = "returned"
    /\ propeller_data # NoData
    /\ \E opened \in BOOLEAN :
        IF opened
        THEN /\ store' = [store EXCEPT ![folder_name] = "partial"]
             /\ pc' = "dump"
             /\ UNCHANGED <<i, fail_count>>
        ELSE /\ fail_count' = CountFailure(fail_count)
             /\ i' = NextPropeller(i)
             /\ pc' = "loop"
             /\ UNCHANGED store
    /\ UNCHANGED <<propellers_to_process, success_count, exit_status, attempted,
                   propeller_diameter, dat_files, k, rpm_dataframes,
                   propeller_data>>
    /\ UNCHANGED lookupVars

\* save: pickle.dump into the open file and the close; a dump that raises
\* leaves what was written (lines 169-174, 277-280)
SaveDump ==
    /\ pc = "dump"
    /\ \E written \in BOOLEAN :
        IF written
        THEN /\ store' = [store EXCEPT ![folder_name] = "complete"]
             /\ success_count' = success_count + 1
             /\ UNCHANGED fail_count
        ELSE /\ fail_count' = CountFailure(fail_count)
             /\ UNCHANGED <<store, success_count>>
    /\ i' = NextPropeller(i)
    /\ pc' = "loop"
    /\ UNCHANGED <<propellers_to_process, exit_status, attempted,
                   propeller_diameter, dat_files, k, rpm_dataframes,
                   propeller_data>>
    /\ UNCHANGED lookupVars

\* main: the summary and the exit status (lines 284-295)
Exit ==
    /\ pc = "loop"
    /\ i > Len(propellers_to_process)
    /\ exit_status' = ExitStatus(fail_count)
    /\ pc' = "done"
    /\ UNCHANGED <<propellers_to_process, i, success_count, fail_count,
                   attempted, propeller_diameter, dat_files, k, rpm_dataframes,
                   propeller_data, store>>
    /\ UNCHANGED lookupVars

Next ==
    \/ StartPropeller
    \/ ListFiles(Listings)
    \/ ProcessNextFile
    \/ FinishGenerate
    \/ CountNoDataset
    \/ SaveOpen
    \/ SaveDump
    \/ Exit

BatchNext ==
    \/ StartPropeller
    \/ ListFiles(BatchListings)
    \/ ProcessNextFile
    \/ FinishGenerate
    \/ CountNoDataset
    \/ SaveOpen
    \/ SaveDump
    \/ Exit

Spec == Init /\ [][Next]_vars

BatchSpec == BatchInit /\ [][BatchNext]_vars

----------------------------------------------------------------------------
(* thrust_lookup.py: ThrustLookupUtility *)

\* table[rpm > 0]: the rows that pass nonzero_mask
NonzeroRpm(table) == SelectSeq(table, LAMBDA r : r.rpm > 0)

Column(table, col) == [j \in 1 .. Len(table) |-> table[j][col]]

SeqMin(xs) == SetMin({xs[j] : j \in 1 .. Len(xs)})
SeqMax(xs) == SetMax({xs[j] : j \in 1 .. Len(xs)})

NonDecreasing(xs) == \A a, b \in 1 .. Len(xs) : a < b => xs[a] <= xs[b]

\* np.interp's value once the search has put x at index j of xp: the last
\* sample, a sample hit exactly, or the point on the segment from j to j + 1
InterpAtIndex(x, xp, fp, j) ==
    IF j = Len(xp) THEN QInt(fp[j])
    ELSE IF QInt(xp[j]) = x THEN QInt(fp[j])
    ELSE QAdd(QInt(fp[j]),
              QMul(QDiv(QInt(fp[j + 1] - fp[j]), QInt(xp[j + 1] - xp[j])),
                   QSub(x, QInt(xp[j]))))

\* the index np.interp's search ends at when xp is in ascending order: the
\* last j with xp[j] <= x
BracketIndex(x, xp) == SetMax({j \in 1 .. Len(xp) : ~QLess(x, QInt(xp[j]))})

\* np.interp(x, xp, fp), xp not empty: the values it can return.  Beyond the
\* last sample it returns fp[-1], before the first fp[0]: it does not
\* extrapolate.  Its search assumes xp ascending; when xp is not, the index
\* it ends at is not specified, and any segment may be used.
Interp(x, xp, fp) ==
    IF QLess(QInt(xp[Len(xp)]), x) THEN {QInt(fp[Len(fp)])}
    ELSE IF QLess(x, QInt(xp[1])) THEN {QInt(fp[1])}
    ELSE IF NonDecreasing(xp) THEN {InterpAtIndex(x, xp, fp, BracketIndex(x, xp))}
    ELSE {InterpAtIndex(x, xp, fp, j) :
             j \in {h \in 1 .. Len(xp) :
                       h = Len(xp) \/ QInt(xp[h]) = x \/ xp[h + 1] # xp[h]}}

\* the target is below thrust.min(), above thrust.max(), or neither
RangeWarnings(target, thrust) ==
    IF target < SeqMin(thrust) THEN {"below_minimum"}
    ELSE IF target > SeqMax(thrust) THEN {"above_maximum"}
    ELSE {}

\* required_rpm > self.max_mechanical_rpm
LimitWarnings(required_rpm, limit) ==
    IF QLess(QInt(limit), required_rpm) THEN {"exceeds_mechanical_rpm"} ELSE {}

\* the dict _find_operating_point_static returns
StaticPoint(required_rpm, target, torque, power, ct, cp) ==
    [rpm |-> required_rpm, thrust |-> QInt(target), torque |-> torque,
     power |-> power, flight_speed |-> 0, advance_ratio |-> QZero,
     ct |-> ct, cp |-> cp, efficiency |-> QZero,
     diameter_inches |-> diameter_inches,
     max_mechanical_rpm |-> max_mechanical_rpm, is_static |-> TRUE]

\* mutant: the sample points and their values handed over in the wrong order
RequiredRpm_Swapped(target, thrust, rpm) == Interp(QInt(target), rpm, thrust)

\* the rpm np.interp(target_thrust, thrust, rpm) can give
RequiredRpm(target, thrust, rpm) == Interp(QInt(target), thrust, rpm)

\* a row of a dataset table, the columns the lookup reads
Row(rpm, T, Q, P, CT, CP) ==
    [rpm |-> rpm, T |-> T, Q |-> Q, P |-> P, CT |-> CT, CP |-> CP]

\* the rows of measured curves in the V = 0 table: three rpm, three thrusts,
\* and two settings of the columns read off at the solved rpm
MeasuredRows ==
    {Row(rpm, T, a[1], a[2], a[3], a[4]) :
        rpm \in {1000, 2000, 3000}, T \in {2, 3, 5},
        a \in {<<1, 3, 5, 7>>, <<2, 4, 6, 9>>}}

\* V = 0 tables: the zero rpm row, then up to MaxRows rows in ascending rpm
\* order (sort_values(by='rpm') of the generator; equal rpm may repeat)
StaticTables ==
    {<<Row(0, 0, 0, 0, 0, 0)>> \o s :
        s \in {t \in UNION {[1 .. n -> MeasuredRows] : n \in 0 .. MaxRows} :
                  \A a, b \in 1 .. Len(t) : a < b => t[a].rpm <= t[b].rpm}}

\* the target is positive: below, at, between and above the thrusts of the rows
TargetThrusts == 1 .. 6

GenIdle ==
    /\ propellers_to_process = <<>>
    /\ i = 1
    /\ success_count = 0
    /\ fail_count = 0
    /\ exit_status = None
    /\ attempted = <<>>
    /\ pc = "idle"
    /\ propeller_diameter = NoDiameter
    /\ dat_files = <<>>
    /\ k = 1
    /\ rpm_dataframes = <<>>
    /\ propeller_data = NoData
    /\ store = [p \in Paths |-> "absent"]

\* ThrustLookupUtility(data, name) and one query at flight speed 0
LookupInit ==
    /\ GenIdle
    /\ data \in {[v \in {0} |-> t] : t \in StaticTables}
    /\ diameter_inches = 10
    /\ max_mechanical_rpm = 2500
    /\ target_thrust \in TargetThrusts
    /\ flight_speed = QZero
    /\ warnings = {}
    /\ result = None
    /\ lpc = "query"
    /\ requested_speed = flight_speed
    /\ first_positive_idx = 0
    /\ fitting_mask = {}
    /\ solution = None

\* flight_speed in self.data: the speed is a whole number and a key
InData(speed, d) == speed.d = 1 /\ speed.n \in DOMAIN d

QAbs(a) == QNorm(Abs(a.n), a.d, 0, 0)

\* PropellerDataManager.find_closest_value(self.data, flight_speed): a key at
\* the least distance from the speed; which of two keys at the same distance
\* is not said
FindClosestValue(d, speed) ==
    {QInt(key) : key \in
        {key \in DOMAIN d :
            \A other \in DOMAIN d :
                ~QLess(QAbs(QSub(QInt(other), speed)),
                       QAbs(QSub(QInt(key), speed)))}}

\* mutant: the substitution is made without telling the caller
SubstitutionWarnings_Silent(speed, d) == {}

\* the warning printed when the speed is not a key (lines 139-142)
SubstitutionWarnings(speed, d) ==
    IF InData(speed, d) THEN {} ELSE {"speed_substituted"}

\* find_operating_point up to the choice of the regime (lines 139-148): the
\* speed is replaced by the closest key when it is not one, and the key in
\* use selects the static solve or the forward-flight solve
FindOperatingPoint ==
    /\ lpc = "query"
    /\ \E closest_speed \in
            (IF InData(flight_speed, data) THEN {flight_speed}
             ELSE FindClosestValue(data, flight_speed)) :
          /\ flight_speed' = closest_speed
          /\ lpc' = IF closest_speed = QZero THEN "static" ELSE "forward"
    /\ warnings' = warnings \cup SubstitutionWarnings(flight_speed, data)
    /\ UNCHANGED <<data, diameter_inches, max_mechanical_rpm, target_thrust,
                   result, requested_speed>>
    /\ UNCHANGED fitVars
    /\ UNCHANGED genVars

\* _find_operating_point_static (lines 62-125); min() of an empty array
\* raises when no row has rpm > 0
FindOperatingPointStatic ==
    /\ lpc = "static"
    /\ LET speed_data == NonzeroRpm(data[0])
           rpm == Column(speed_data, "rpm")
           thrust == Column(speed_data, "T")
       IN  IF Len(speed_data) = 0
           THEN /\ lpc' = "raised"
                /\ UNCHANGED <<warnings, result>>
           ELSE \E required_rpm \in RequiredRpm(target_thrust, thrust, rpm) :
                \E torque \in Interp(required_rpm, rpm, Column(speed_data, "Q")) :
                \E power \in Interp(required_rpm, rpm, Column(speed_data, "P")) :
                \E ct \in Interp(required_rpm, rpm, Column(speed_data, "CT")) :
                \E cp \in Interp(required_rpm, rpm, Column(speed_data, "CP")) :
                    /\ warnings' = warnings
                                   \cup RangeWarnings(target_thrust, thrust)
                                   \cup LimitWarnings(required_rpm, max_mechanical_rpm)
                    /\ result' = StaticPoint(required_rpm, target_thrust,
                                             torque, power, ct, cp)
                    /\ lpc' = "done"
    /\ UNCHANGED <<data, diameter_inches, max_mechanical_rpm, target_thrust,
                   flight_speed, requested_speed>>
    /\ UNCHANGED fitVars
    /\ UNCHANGED genVars

LookupNext ==
    \/ FindOperatingPoint
    \/ FindOperatingPointStatic

LookupSpec == LookupInit /\ [][LookupNext]_vars

----------------------------------------------------------------------------
(* thrust_lookup.py: the forward-flight solve of find_operating_point.      *)
(* Thrust is a rational here (the onset test compares it with 0.1); the    *)
(* other columns are whole numbers.                                        *)

\* thrust_threshold = 0.1
thrust_threshold == QNorm(1, 10, 0, 0)

RECURSIVE QSum(_)
QSum(s) == IF s = <<>> THEN QZero ELSE QAdd(Head(s), QSum(Tail(s)))

QSeqMin(xs) == CHOOSE m \in {xs[j] : j \in 1 .. Len(xs)} :
                  \A j \in 1 .. Len(xs) : ~QLess(xs[j], m)
QSeqMax(xs) == CHOOSE m \in {xs[j] : j \in 1 .. Len(xs)} :
                  \A j \in 1 .. Len(xs) : ~QLess(m, xs[j])

\* np.where((rpm > 0) & (thrust > thrust_threshold))[0], 1-based
SignificantThrustIndices(rpm, thrust) ==
    {j \in 1 .. Len(rpm) : rpm[j] > 0 /\ QLess(thrust_threshold, thrust[j])}

\* np.where((rpm > 0) & (thrust > 0))[0], 1-based
PositiveThrustIndices(rpm, thrust) ==
    {j \in 1 .. Len(rpm) : rpm[j] > 0 /\ QPositive(thrust[j])}

\* the test of one candidate (lines 173-188): with two or more rows after it
\* the next two are above the threshold, with one the next is, with none
\* the candidate is taken
Consistent(thrust, candidate_idx) ==
    LET look_ahead == IF Len(thrust) - candidate_idx < 2
                      THEN Len(thrust) - candidate_idx ELSE 2
    IN  IF look_ahead >= 2
        THEN /\ QLess(thrust_threshold, thrust[candidate_idx + 1])
             /\ QLess(thrust_threshold, thrust[candidate_idx + 2])
        ELSE IF look_ahead = 1
        THEN QLess(thrust_threshold, thrust[candidate_idx + 1])
        ELSE TRUE

\* first_positive_idx (lines 166-202), 1-based; 0 stands for the return of
\* None when no row has positive thrust
FirstPositiveIdx(rpm, thrust) ==
    LET significant == SignificantThrustIndices(rpm, thrust)
        consistent == {j \in significant : Consistent(thrust, j)}
        positive == PositiveThrustIndices(rpm, thrust)
    IN  IF significant # {}
        THEN IF consistent # {} THEN SetMin(consistent) ELSE SetMin(significant)
        ELSE IF positive # {} THEN SetMin(positive)
        ELSE 0

\* fitting_mask of one rpm (lines 206-212): effective_max_rpm is the limit
\* less 1000 when the limit is truthy, and bounds the window when it is
\* truthy itself
InFittingMask(r, first_positive_rpm, limit) ==
    /\ r >= first_positive_rpm
    /\ (limit # 0 /\ limit - 1000 # 0) => r <= limit - 1000

FittingMask(rpm, first_positive_rpm, limit) ==
    {j \in 1 .. Len(rpm) : InFittingMask(rpm[j], first_positive_rpm, limit)}

\* speed_data[fitting_mask]
FittingRows(table, first_positive_rpm, limit) ==
    SelectSeq(table, LAMBDA r : InFittingMask(r.rpm, first_positive_rpm, limit))

\* the normal equations of a least-squares polynomial of the given degree,
\* as rows of an augmented matrix: row r is sum x^(r+c-2) over c, then
\* sum y x^(r-1)
NormalEquations(degree, xs, ys) ==
    LET powers == [j \in 1 .. Len(xs) |->
                      [e \in 0 .. 2 * degree |-> QPow(xs[j], e)]]
        moment == [e \in 0 .. 2 * degree |->
                      QSum([j \in 1 .. Len(xs) |-> powers[j][e]])]
    IN  [r \in 1 .. degree + 1 |->
            [c \in 1 .. degree + 2 |->
                IF c <= degree + 1
                THEN moment[r + c - 2]
                ELSE QSum([j \in 1 .. Len(xs) |->
                              QMul(ys[j], powers[j][r - 1])])]]

\* the solution of an augmented system by elimination; the matrix of normal
\* equations over four or more distinct abscissae is positive definite, so
\* no pivot is zero
RECURSIVE SolveLinear(_)
SolveLinear(A) ==
    LET n == Len(A)
    IN  IF n = 1 THEN <<QDiv(A[1][2], A[1][1])>>
        ELSE LET reduced ==
                     [r \in 1 .. n - 1 |->
                         [c \in 1 .. n |->
                             QSub(A[r + 1][c + 1],
                                  QMul(QDiv(A[r + 1][1], A[1][1]), A[1][c + 1]))]]
                 tail == SolveLinear(reduced)
                 head == QDiv(QSub(A[1][n + 1],
                                   QSum([j \in 1 .. n - 1 |->
                                            QMul(A[1][j + 1], tail[j])])),
                              A[1][1])
             IN  <<head>> \o tail

\* curve_fit(polynomial, rpm_fit, values): the coefficients of the
\* least-squares polynomial, lowest power first.  The least-squares
\* polynomial does not depend on the unit of its abscissa; the coefficients
\* are kept per thousand rpm, which keeps the sums of powers small.
CurveFit(degree, rpm_fit, values) ==
    SolveLinear(NormalEquations(degree,
                                [j \in 1 .. Len(rpm_fit) |->
                                    QNorm(rpm_fit[j], 1000, 0, 0)],
                                values))

\* PlotUtilities.second_order_polynomial and third_order_polynomial at an
\* rpm: the sum of popt[j] x^(j-1), x in thousands of rpm
Polynomial(x, popt) ==
    QSum([j \in 1 .. Len(popt) |->
             QMul(popt[j], QPow(QDiv(x, QInt(1000)), j - 1))])

\* thrust_error(rpm_val) (lines 245-246)
ThrustError(rpm_val, popt_thrust, target) ==
    QSub(Polynomial(rpm_val, popt_thrust), QInt(target))

Sgn(a) == IF a.n > 0 THEN 1 ELSE IF a.n < 0 THEN -1 ELSE 0

\* the discriminant of thrust_error, a polynomial of degree two
Discriminant(popt_thrust, target) ==
    QSub(QMul(popt_thrust[2], popt_thrust[2]),
         QMul(QInt(4), QMul(popt_thrust[3], QSub(popt_thrust[1], QInt(target)))))

\* thrust_error has a real root
HasRoot(popt_thrust, target) ==
    IF popt_thrust[3] # QZero THEN Discriminant(popt_thrust, target).n >= 0
    ELSE IF popt_thrust[2] # QZero THEN TRUE
    ELSE popt_thrust[1] = QInt(target)

\* the rpm at which the fitted parabola turns
Vertex(popt_thrust) == QMul(QInt(-500), QDiv(popt_thrust[2], popt_thrust[3]))

\* the sign of thrust_error far above (direction 1) and far below (-1)
SignFarOut(popt_thrust, target, direction) ==
    IF popt_thrust[3] # QZero THEN Sgn(popt_thrust[3])
    ELSE IF popt_thrust[2] # QZero THEN direction * Sgn(popt_thrust[2])
    ELSE Sgn(QSub(popt_thrust[1], QInt(target)))

\* the rpm values fsolve can hand back: floating-point numbers at the
\* resolution of the model, every 500 rpm from -2000 to 8000, each standing
\* for the rpm within 250 of it
SolverGrid == {500 * j : j \in -4 .. 16}

\* the values that stand for every rpm below and for every rpm above the grid
BelowGrid == SetMin(SolverGrid) - 500
AboveGrid == SetMax(SolverGrid) + 500

\* a root of thrust_error lies within 250 rpm of x: the error is zero at x,
\* changes sign between x - 250 and x + 250, or the parabola turns between
\* them with both its roots
NearRoot(x, popt_thrust, target) ==
    LET below == ThrustError(QInt(x - 250), popt_thrust, target)
        above == ThrustError(QInt(x + 250), popt_thrust, target)
    IN  \/ ThrustError(QInt(x), popt_thrust, target) = QZero
        \/ Sgn(below) * Sgn(above) <= 0
        \/ /\ popt_thrust[3] # QZero
           /\ HasRoot(popt_thrust, target)
           /\ Sgn(below) = Sgn(popt_thrust[3])
           /\ Sgn(above) = Sgn(popt_thrust[3])
           /\ ~QLess(Vertex(popt_thrust), QInt(x - 250))
           /\ ~QLess(QInt(x + 250), Vertex(popt_thrust))

\* a root of thrust_error lies beyond the grid in the direction given: the
\* error changes sign between the edge and far out, or the parabola turns
\* beyond the edge with both its roots
RootBeyond(popt_thrust, target, direction) ==
    LET edge == IF direction = 1 THEN SetMax(SolverGrid) + 250
                ELSE SetMin(SolverGrid) - 250
        error == ThrustError(QInt(edge), popt_thrust, target)
    IN  /\ HasRoot(popt_thrust, target)
        /\ \/ Sgn(error) * SignFarOut(popt_thrust, target, direction) < 0
           \/ /\ popt_thrust[3] # QZero
              /\ Sgn(error) = Sgn(popt_thrust[3])
              /\ IF direction = 1 THEN QLess(QInt(edge), Vertex(popt_thrust))
                 ELSE QLess(Vertex(popt_thrust), QInt(edge))

\* fsolve(thrust_error, initial_guess): what it hands back.  ier = 1 when it
\* converged, to a root; when thrust_error has no root fsolve does not
\* raise: it warns and hands back its last iterate with ier # 1, and the
\* call of line 255 keeps only the iterate.  Which root, and which iterate,
\* depends on the start (lines 249-252) and is left open.
FSolve(popt_thrust, target) ==
    LET roots == {x \in SolverGrid : NearRoot(x, popt_thrust, target)}
                 \cup (IF RootBeyond(popt_thrust, target, -1)
                       THEN {BelowGrid} ELSE {})
                 \cup (IF RootBeyond(popt_thrust, target, 1)
                       THEN {AboveGrid} ELSE {})
    IN  IF HasRoot(popt_thrust, target)
        THEN {[x |-> QInt(x), ier |-> 1] : x \in roots}
        ELSE {[x |-> QInt(x), ier |-> 5] : x \in SolverGrid}

\* the warnings of lines 236-242: above 1.1 times the largest thrust of the
\* window, else below the smallest
FitRangeWarnings(target, thrust_fit) ==
    IF QLess(QMul(QSeqMax(thrust_fit), QNorm(11, 10, 0, 0)), QInt(target))
    THEN {"above_maximum"}
    ELSE IF QLess(QInt(target), QSeqMin(thrust_fit))
    THEN {"below_minimum"}
    ELSE {}

\* the warning of lines 265-268: above 1.2 times the mechanical limit
ForwardLimitWarnings(required_rpm, limit) ==
    IF QLess(QMul(QInt(limit), QNorm(12, 10, 0, 0)), required_rpm)
    THEN {"exceeds_mechanical_rpm"}
    ELSE {}

\* the dict find_operating_point returns (lines 285-298)
ForwardPoint(required_rpm, thrust, torque, power, speed, J, ct, cp, eta) ==
    [rpm |-> required_rpm, thrust |-> thrust, torque |-> torque,
     power |-> power, flight_speed |-> speed, advance_ratio |-> J,
     ct |-> ct, cp |-> cp, efficiency |-> eta,
     diameter_inches |-> diameter_inches,
     max_mechanical_rpm |-> max_mechanical_rpm, is_static |-> FALSE]

\* find_operating_point from line 150 on; lpc ends at "done" when a dict is
\* returned and at "failed" when None is.  The messages printed on the way,
\* errors included, are collected in warnings.  The rows of a table of the
\* model differ in rpm, so the three least-squares fits of a window of four
\* or more rows exist and are unique: the except branch of lines 228-230 is
\* not taken, and neither is that of lines 256-258, since fsolve reports a
\* failure to converge by a warning and not by raising.
FindOperatingPointForward ==
    /\ lpc = "forward"
    /\ LET speed_data == data[flight_speed.n]
           rpm == Column(speed_data, "rpm")
           thrust == Column(speed_data, "T")
           idx == FirstPositiveIdx(rpm, thrust)
           window == FittingRows(speed_data, rpm[idx], max_mechanical_rpm)
           rpm_fit == Column(window, "rpm")
           thrust_fit == Column(window, "T")
       IN  IF idx = 0
           THEN /\ warnings' = warnings \cup {"no_positive_thrust"}
                /\ result' = None
                /\ lpc' = "failed"
                /\ UNCHANGED fitVars
           ELSE IF Len(window) < 4
           THEN /\ warnings' = warnings \cup {"insufficient_data"}
                /\ result' = None
                /\ lpc' = "failed"
                /\ first_positive_idx' = idx
                /\ fitting_mask' = FittingMask(rpm, rpm[idx], max_mechanical_rpm)
                /\ UNCHANGED solution
           ELSE \E popt_thrust \in {CurveFit(2, rpm_fit, thrust_fit)} :
                \E popt_torque \in
                    {CurveFit(2, rpm_fit,
                              [j \in 1 .. Len(window) |-> QInt(window[j].Q)])} :
                \E popt_power \in
                    {CurveFit(3, rpm_fit,
                              [j \in 1 .. Len(window) |-> QInt(window[j].P)])} :
                \E found \in FSolve(popt_thrust, target_thrust) :
                    /\ first_positive_idx' = idx
                    /\ fitting_mask' = FittingMask(rpm, rpm[idx], max_mechanical_rpm)
                    /\ solution' = found
                    /\ IF QLess(found.x, QZero)
                       THEN /\ warnings' = warnings
                                   \cup FitRangeWarnings(target_thrust, thrust_fit)
                                   \cup {"negative_rpm"}
                            /\ result' = None
                            /\ lpc' = "failed"
                       ELSE \E J \in Interp(found.x, rpm_fit, Column(window, "J")) :
                            \E ct \in Interp(found.x, rpm_fit, Column(window, "CT")) :
                            \E cp \in Interp(found.x, rpm_fit, Column(window, "CP")) :
                            \E eta \in Interp(found.x, rpm_fit, Column(window, "eta")) :
                                /\ warnings' = warnings
                                       \cup FitRangeWarnings(target_thrust, thrust_fit)
                                       \cup ForwardLimitWarnings(found.x,
                                                                 max_mechanical_rpm)
                                /\ result' =
                                       ForwardPoint(found.x,
                                                    Polynomial(found.x, popt_thrust),
                                                    Polynomial(found.x, popt_torque),
                                                    Polynomial(found.x, popt_power),
                                                    flight_speed, J, ct, cp, eta)
                                /\ lpc' = "done"
    /\ UNCHANGED <<data, diameter_inches, max_mechanical_rpm, target_thrust,
                   flight_speed, requested_speed>>
    /\ UNCHANGED genVars

\* a row of a forward-flight table: the columns the solve reads; the
\* coefficient columns differ from key to key
ForwardRow(v, rpm, T) ==
    [rpm |-> rpm, T |-> T, Q |-> rpm \div 1000,
     P |-> (rpm \div 1000) * (rpm \div 1000) * (rpm \div 1000),
     J |-> v, CT |-> v + rpm \div 1000, CP |-> 2 * v + rpm \div 1000,
     eta |-> 3 * v + rpm \div 1000]

\* the thrust a row can carry: a dip below zero, a reading between 0 and
\* the threshold, or the thrust of a curve growing with the square of the rpm
ThrustSamples(rpm) ==
    <<QInt(-1), QNorm(1, 20, 0, 0), QInt((rpm \div 1000) * (rpm \div 1000))>>

\* tables of the key v: the zero rpm row, then up to MaxSamples rows 1000
\* rpm apart (ascending and distinct, as the generator's sort leaves the
\* rows of files of different rpm)
ForwardTables(v) ==
    {<<ForwardRow(v, 0, QZero)>> \o
        [j \in 1 .. Len(c) |->
            ForwardRow(v, 1000 * j, ThrustSamples(1000 * j)[c[j]])] :
        c \in UNION {[1 .. m -> 1 .. 3] : m \in 1 .. MaxSamples}}

\* the table of a second key: five rows on the growing curve
SmoothTable(v) ==
    <<ForwardRow(v, 0, QZero)>> \o
        [j \in 1 .. 5 |-> ForwardRow(v, 1000 * j, ThrustSamples(1000 * j)[3])]

\* the V = 0 table of the forward-flight queries
StaticTable ==
    <<Row(0, 0, 0, 0, 0, 0), Row(1000, 2, 1, 3, 5, 7), Row(2000, 3, 2, 4, 6, 9),
      Row(3000, 5, 2, 4, 6, 9)>>

\* the speeds asked for: a key, a speed nearest to key 0, and a speed half
\* way between two keys
FlightSpeeds == {QInt(37), QNorm(2, 5, 0, 0), QNorm(75, 2, 0, 0)}

\* the mechanical limits of the propellers queried
MechanicalLimits == {1000, 5000}

\* targets below, inside, just above and far above the thrust of the window
ForwardTargets == {1, 17, 30}

\* ThrustLookupUtility(data, name) and one query of find_operating_point
ForwardInit ==
    /\ GenIdle
    /\ data \in {[v \in {0, 37, 38} |->
                    IF v = 0 THEN StaticTable
                    ELSE IF v = 37 THEN t ELSE SmoothTable(v)] :
                 t \in ForwardTables(37)}
    /\ diameter_inches = 10
    /\ max_mechanical_rpm \in MechanicalLimits
    /\ target_thrust \in ForwardTargets
    /\ flight_speed \in FlightSpeeds
    /\ warnings = {}
    /\ result = None
    /\ lpc = "query"
    /\ requested_speed = flight_speed
    /\ first_positive_idx = 0
    /\ fitting_mask = {}
    /\ solution = None

ForwardNext ==
    \/ FindOperatingPoint
    \/ FindOperatingPointStatic
    \/ FindOperatingPointForward

ForwardSpec == ForwardInit /\ [][ForwardNext]_vars

----------------------------------------------------------------------------
(* Properties of the synthesized dataset *)

\* generate returned a dataset for the propeller attempted last
HasDataset == propeller_data # NoData

LastAttempted == attempted[Len(attempted)]

\* the positions of dat_files whose name is an integer and whose read and
\* interpolation did not raise
Processed == {j \in 1 .. Len(dat_files) :
                 IntParses(dat_files[j].stem) /\ ~dat_files[j].raises}

ProcessedRpms == {IntValue(dat_files[j].stem) : j \in Processed}

RpmsOfTable(table) == {table[j].rpm : j \in 1 .. Len(table)}

\* every row of every table of the dataset satisfies P
AllRows(P(_)) ==
    \A v \in DOMAIN propeller_data :
        \A j \in 1 .. Len(propeller_data[v]) : P(propeller_data[v][j])

\* the form D<digits>[-<digits>]P...
WellFormed(name) ==
    LET p == FirstIndex(name, "P", 1)
        number == SubSeq(name, 2, p - 1)
        dash == FirstIndex(number, "-", 1)
    IN  /\ Len(name) >= 1 /\ name[1] = "D"
        /\ p <= Len(name)
        /\ Len(number) >= 1
        /\ \A j \in 1 .. Len(number) : number[j] \in Digits \/ j = dash
        /\ dash <= Len(number) => dash > 1 /\ dash < Len(number)

\* a dataset of a propeller whose identifier has the form D<digits>[-<digits>]P...
HasRegularDataset == HasDataset /\ WellFormed(LastAttempted)

\* C1: a dataset has exactly the keys 0..100, and the rpm values of every
\* key's table are those of the successfully processed files plus 0
C1_KeysAndRpmSets ==
    HasDataset =>
        /\ DOMAIN propeller_data = 0 .. 100
        /\ \A v \in 0 .. 100 :
              RpmsOfTable(propeller_data[v]) = ProcessedRpms \cup {0}

\* C1 witness: a dataset of two processed files of different rpm
C1_Witness ==
    /\ HasDataset
    /\ Cardinality(ProcessedRpms) = 2
    /\ 0 \notin ProcessedRpms

\* the curves of the dataset: the processed files and the zero rpm curve, by rpm
CurveRpms == [j \in 1 .. Len(rpm_dataframes) |-> rpm_dataframes[j][1].rpm]

RowsOfRpm(table, r) == Cardinality({j \in 1 .. Len(table) : table[j].rpm = r})

\* C2 (as claimed): every table holds exactly one row of every curve, with
\* V = v, in ascending rpm order, whatever rows the files list
C2_OneRowPerCurve ==
    HasRegularDataset =>
        \A v \in 0 .. 100 :
            LET table == propeller_data[v]
            IN  /\ Len(table) = Len(rpm_dataframes)
                /\ \A r \in RpmsOfTable(table) :
                      RowsOfRpm(table, r) = Count(CurveRpms, r)
                /\ \A j \in 1 .. Len(table) : table[j].V = v
                /\ \A a, b \in 1 .. Len(table) : a < b => table[a].rpm <= table[b].rpm

\* C3 (as claimed): every row with rpm = 0 is zero in every column but V
C3_ZeroRpmRowsAreZero ==
    HasRegularDataset =>
        AllRows(LAMBDA row :
            row.rpm = 0 =>
                /\ row.J = QZero /\ row.eta = QZero /\ row.CT = QZero
                /\ row.CP = QZero /\ row.CQ = QZero
                /\ row.P = 0 /\ row.Q = 0 /\ row.T = 0)

\* C4: CQ = CP / (2 pi) in every row, and in every row with rpm > 0 the
\* coefficients are those of the row's own V, T, P, its rpm and the parsed
\* diameter: J n D = V, CT rho n^2 D^4 = T, CP rho n^3 D^5 = P, and eta is 0
\* or CT J / CP; what the file supplied for them is not in the output
C4_CoefficientsRecomputed ==
    HasDataset =>
        AllRows(LAMBDA row :
            LET n == QNorm(row.rpm, 60, 0, 0)
                D == propeller_diameter
                density == QNorm(1225, 1000, 0, 0)
            IN  /\ QMul(row.CQ, [n |-> 2, d |-> 1, u |-> 0, p |-> 1]) = row.CP
                /\ row.rpm > 0 =>
                      /\ QMul(row.J, QMul(n, D)) = QInt(row.V)
                      /\ QMul(row.CT, QMul(density, QMul(QPow(n, 2), QPow(D, 4))))
                            = QInt(row.T)
                      /\ QMul(row.CP, QMul(density, QMul(QPow(n, 3), QPow(D, 5))))
                            = QInt(row.P)
                      /\ \/ row.eta = QZero
                         \/ QMul(row.eta, row.CP) = QMul(row.CT, row.J))

\* C4 witness: a dataset with the row of 60.dat at airspeed 2, where the file
\* gave J = CT = CP = 7, and the row now carries other, non-zero coefficients
C4_Witness ==
    /\ HasDataset
    /\ \E j \in 1 .. Len(propeller_data[2]) :
          LET row == propeller_data[2][j]
          IN  /\ row.rpm = 60 /\ row.T = 3 /\ row.P = 6
              /\ row.J # QZero /\ row.CT # QZero /\ row.CP # QZero
              /\ row.J # QInt(7) /\ row.CT # QInt(7) /\ row.CP # QInt(7)

\* C5 (as claimed): in every row with rpm > 0, eta = CT J / CP when CP is
\* not 0, negative included, and eta = 0 when CP = 0
C5_EfficiencyFormula ==
    HasRegularDataset =>
        AllRows(LAMBDA row :
            row.rpm > 0 =>
                IF row.CP = QZero THEN row.eta = QZero
                ELSE row.eta = QDiv(QMul(row.CT, row.J), row.CP))

\* C6 (as claimed): an identifier that is not of the form D<digits>[-<digits>]P...
\* gives no dataset
C6_IllFormedIdentifierGivesNone ==
    (Len(attempted) > 0 /\ ~WellFormed(LastAttempted)) => ~HasDataset

FrameRpms == [j \in 1 .. Len(rpm_dataframes) - 1 |-> rpm_dataframes[j][1].rpm]

ProcessedFiles == SelectSeq(dat_files, LAMBDA f : IntParses(f.stem) /\ ~f.raises)

\* C7: when generate returns, there is no dataset exactly if the diameter did
\* not parse or no file processed, and a dataset is built from exactly the
\* files that processed, in their order, followed by the zero rpm curve
C7_SkipAndContinue ==
    pc = "returned" =>
        /\ ~HasDataset <=>
              (propeller_diameter = NoDiameter \/ Processed = {})
        /\ HasDataset =>
              /\ FrameRpms = [j \in 1 .. Len(ProcessedFiles) |->
                                 IntValue(ProcessedFiles[j].stem)]
              /\ rpm_dataframes[Len(rpm_dataframes)] = ZeroRpmData
              /\ \A v \in 0 .. 100 :
                    Len(propeller_data[v]) >= Len(ProcessedFiles) + 1

\* C7 witness: a file that is skipped, then one that is processed
C7_Witness ==
    /\ pc = "returned"
    /\ HasDataset
    /\ Len(dat_files) = 2
    /\ Processed = {2}

----------------------------------------------------------------------------
(* Properties of the batch run *)

\* the propeller in hand has been handed to generate and not yet counted
InPropeller == pc \in {"list", "files", "returned", "dump"}

\* C8: every selected propeller is attempted once, in list order, whatever
\* the earlier outcomes; a propeller without dataset or whose save failed adds
\* one to fail_count and a saved one adds one to success_count, and either
\* way the run moves to the next; at the end the counts add up to the number
\* selected and the exit status is 0 exactly when fail_count is 0
C8_BatchCountsAndProceeds ==
    /\ [](/\ i \in 1 .. Len(propellers_to_process) + 1
          /\ success_count + fail_count = i - 1
          /\ attempted = SubSeq(propellers_to_process, 1,
                                IF InPropeller THEN i ELSE i - 1)
          /\ pc = "done" =>
                /\ attempted = propellers_to_process
                /\ success_count + fail_count = Len(propellers_to_process)
                /\ exit_status \in {0, 1}
                /\ exit_status = 0 <=> fail_count = 0)
    /\ [][ (InPropeller /\ pc' = "loop") =>
              /\ i' = i + 1
              /\ IF pc = "dump" /\ store'[folder_name] = "complete"
                 THEN success_count' = success_count + 1 /\ fail_count' = fail_count
                 ELSE fail_count' = fail_count + 1 /\ success_count' = success_count
         ]_vars
    /\ [][ (pc = "loop" /\ i <= Len(propellers_to_process)) => pc' # "done" ]_vars

\* C8 witness: a batch of two ended, the first propeller failed (no dataset)
\* and the second was still generated and saved
C8_Witness ==
    /\ pc = "done"
    /\ Len(propellers_to_process) = 2
    /\ ParseDiameter(propellers_to_process[1]) = NoDiameter
    /\ store[propellers_to_process[2]] = "complete"
    /\ fail_count = 1
    /\ success_count = 1
    /\ exit_status = 1

----------------------------------------------------------------------------
(* Properties of the static lookup *)

\* the rows of the V = 0 table with rpm > 0, in table order
StaticRows == SelectSeq(data[0], LAMBDA r : r.rpm > 0)

\* thrust is a strictly increasing function of rpm over the rows with rpm > 0:
\* along the table both the rpm and the thrust grow from row to row
ThrustIncreasesWithRpm ==
    \A a, b \in 1 .. Len(StaticRows) :
        a < b => /\ StaticRows[a].rpm < StaticRows[b].rpm
                 /\ StaticRows[a].T < StaticRows[b].T

\* C9: with thrust strictly increasing with rpm at V = 0, the static solve
\* for the thrust of row k returns that row: its rpm, torque, power, CT and
\* CP, with advance ratio 0, efficiency 0 and is_static true
C9_StaticInversion ==
    (lpc = "done" /\ ThrustIncreasesWithRpm) =>
        \A j \in 1 .. Len(StaticRows) :
            StaticRows[j].T = target_thrust =>
                /\ result.rpm = QInt(StaticRows[j].rpm)
                /\ result.torque = QInt(StaticRows[j].Q)
                /\ result.power = QInt(StaticRows[j].P)
                /\ result.ct = QInt(StaticRows[j].CT)
                /\ result.cp = QInt(StaticRows[j].CP)
                /\ result.advance_ratio = QZero
                /\ result.efficiency = QZero
                /\ result.is_static = TRUE

\* C9 witness: three rows of growing rpm and thrust, solved for the thrust of
\* the middle row
C9_Witness ==
    /\ lpc = "done"
    /\ ThrustIncreasesWithRpm
    /\ Len(StaticRows) = 3
    /\ StaticRows[2].T = target_thrust
    /\ result.rpm = QInt(2000)

\* the observed rpm range of the rows with rpm > 0
ObservedRpms == {StaticRows[j].rpm : j \in 1 .. Len(StaticRows)}
ObservedThrusts == {StaticRows[j].T : j \in 1 .. Len(StaticRows)}

TargetOutOfRange ==
    \/ target_thrust < SetMin(ObservedThrusts)
    \/ target_thrust > SetMax(ObservedThrusts)

\* C10 (as claimed): for a target below the minimum or above the maximum
\* observed thrust the solver warns, returns a point, and the rpm of the point
\* lies outside the observed rpm range (an extrapolation); stated for tables
\* of two or more rows whose thrust grows with rpm, where the end segment is
\* defined
C10_OutOfRangeExtrapolates ==
    (lpc \in {"done", "raised"} /\ Len(StaticRows) >= 2 /\ ThrustIncreasesWithRpm
        /\ TargetOutOfRange) =>
        /\ lpc = "done"
        /\ warnings \cap {"below_minimum", "above_maximum"} # {}
        /\ \/ QLess(result.rpm, QInt(SetMin(ObservedRpms)))
           \/ QLess(QInt(SetMax(ObservedRpms)), result.rpm)

----------------------------------------------------------------------------
(* Properties of find_operating_point *)

\* the requested speed was not a key of the dataset
Substituted == ~InData(requested_speed, data)

\* the table of the key in use
KeyTable == data[flight_speed.n]

ColumnValues(table, col) == {table[j][col] : j \in 1 .. Len(table)}

\* a value read off a column by interpolation lies between the column's ends
WithinColumn(value, table, col) ==
    /\ ~QLess(value, QInt(SetMin(ColumnValues(table, col))))
    /\ ~QLess(QInt(SetMax(ColumnValues(table, col))), value)

\* C11: a speed that is not a key is replaced by a key at the least distance,
\* the replacement is reported, and a returned point carries the key in use
\* as its flight_speed, is static exactly when that key is 0, and has its
\* coefficients read off that key's table
C11_SubstitutesNearestKey ==
    (lpc \in {"done", "failed"} /\ Substituted) =>
        /\ "speed_substituted" \in warnings
        /\ InData(flight_speed, data)
        /\ \A other \in DOMAIN data :
              ~QLess(QAbs(QSub(QInt(other), requested_speed)),
                     QAbs(QSub(flight_speed, requested_speed)))
        /\ lpc = "done" =>
              /\ result.is_static <=> flight_speed = QZero
              /\ IF result.is_static
                 THEN result.flight_speed = 0
                 ELSE result.flight_speed = flight_speed
              /\ WithinColumn(result.ct, KeyTable, "CT")
              /\ WithinColumn(result.cp, KeyTable, "CP")

\* C11 witness: 37.5 was asked for, key 37 is in use and a forward-flight
\* point was returned
C11_Witness ==
    /\ lpc = "done"
    /\ requested_speed = QNorm(75, 2, 0, 0)
    /\ flight_speed = QInt(37)
    /\ "speed_substituted" \in warnings
    /\ ~result.is_static
    /\ result.flight_speed = QInt(37)

\* the forward-flight solve got as far as the root-finder
Solved ==
    /\ lpc \in {"done", "failed"}
    /\ flight_speed # QZero
    /\ Cardinality(fitting_mask) >= 4

\* C12 (as claimed): the forward-flight solve returns None whenever fsolve did
\* not converge and whenever its rpm is negative, and a point only for a
\* converged, non-negative rpm, which is the rpm of the point
C12_FailsUnlessConverged ==
    Solved =>
        /\ (solution.ier # 1 \/ QLess(solution.x, QZero)) => lpc = "failed"
        /\ lpc = "done" =>
              /\ solution.ier = 1
              /\ ~QLess(solution.x, QZero)
              /\ result.rpm = solution.x

\* the solve produced an rpm that solves the query: the static interpolation,
\* or a root the forward-flight root-finder converged to
SolvedRpm ==
    IF flight_speed = QZero THEN result.rpm ELSE solution.x

HasSolvedRpm ==
    \/ lpc = "done" /\ flight_speed = QZero
    \/ Solved /\ solution.ier = 1

\* C13 (as claimed): in both regimes a solved rpm above max_mechanical_rpm,
\* by however little, is returned as a point and flagged as exceeding the
\* mechanical limit
C13_LimitAlwaysFlagged ==
    (HasSolvedRpm /\ QLess(QInt(max_mechanical_rpm), SolvedRpm)) =>
        /\ lpc = "done"
        /\ result.rpm = SolvedRpm
        /\ "exceeds_mechanical_rpm" \in warnings

\* the thrust of the rows of the fitting window
WindowThrusts == {KeyTable[j].T : j \in fitting_mask}

TargetOutsideWindow ==
    \/ \A t \in WindowThrusts : QLess(QInt(target_thrust), t)
    \/ \A t \in WindowThrusts : QLess(t, QInt(target_thrust))

\* C14 (as claimed): a forward-flight solve whose target is below the least
\* or above the greatest thrust of the fitting window goes on to the
\* root-finder and carries an out-of-range warning
C14_OutOfRangeAlwaysWarned ==
    (Solved /\ TargetOutsideWindow) =>
        warnings \cap {"below_minimum", "above_maximum"} # {}

\* C15 (as claimed): a reader of the dataset store finds, at the final path
\* of a dataset, either no file or the whole dataset
C15_VisibleOnlyWhenComplete ==
    \A path \in Paths : store[path] \in {"absent", "complete"}

\* the thrust of row j of the table is above the noise threshold of 0.1 N
AboveNoise(table, j) == QLess(QNorm(1, 10, 0, 0), table[j].T)

\* row j starts a run: rpm > 0, thrust above 0.1 N, and so are the next two
\* rows, or the next one when one follows, or none when j is the last row
StartsRun(table, j) ==
    /\ table[j].rpm > 0
    /\ AboveNoise(table, j)
    /\ \A h \in {j + 1, j + 2} : h <= Len(table) => AboveNoise(table, h)

\* the onset as claimed: the lowest row that starts a run, else the first
\* row with rpm > 0 and thrust above 0, else none (0)
ClaimedOnset(table) ==
    LET runs == {j \in 1 .. Len(table) : StartsRun(table, j)}
        positive == {j \in 1 .. Len(table) :
                        table[j].rpm > 0 /\ table[j].T.n > 0}
    IN  IF runs # {} THEN SetMin(runs)
        ELSE IF positive # {} THEN SetMin(positive)
        ELSE 0

\* the forward-flight solve has run
ForwardRan == lpc \in {"done", "failed"} /\ flight_speed # QZero

\* C16 (as claimed): the onset of the forward-flight solve is the lowest row
\* that starts a run, else the first row of positive thrust, and without
\* such a row the solve returns None for lack of positive thrust
C16_OnsetDetection ==
    ForwardRan =>
        IF ClaimedOnset(KeyTable) = 0
        THEN lpc = "failed" /\ "no_positive_thrust" \in warnings
        ELSE first_positive_idx = ClaimedOnset(KeyTable)

\* the window as claimed: onset rpm <= rpm <= max_mechanical_rpm - 1000
ClaimedWindow ==
    {j \in 1 .. Len(KeyTable) :
        /\ KeyTable[j].rpm >= KeyTable[first_positive_idx].rpm
        /\ KeyTable[j].rpm <= max_mechanical_rpm - 1000}

\* C17 (as claimed): once the onset is found, the rows fitted are exactly
\* those of the claimed window, and the solve returns None for lack of
\* fitting data exactly when that window has fewer than 4 rows
C17_FittingWindow ==
    (ForwardRan /\ first_positive_idx # 0) =>
        /\ fitting_mask = ClaimedWindow
        /\ (lpc = "failed" /\ "insufficient_data" \in warnings)
              <=> Cardinality(ClaimedWindow) < 4

=============================================================================
